---------------------------- MODULE Spec2Model ----------------------------
(***************************************************************************)
(* A model of unphishable.py: the domain parser, the three checkers        *)
(* (HTTP reachability, TLS certificate, WHOIS age), the additive risk      *)
(* scorer with its three-tier verdict, and the interactive loop of main(). *)
(*                                                                         *)
(* Strings that the code inspects character by character (the user input,  *)
(* the parsed domain) are sequences of one-character strings; strings that *)
(* the code only compares as a whole (issuer names, status words) are TLA+ *)
(* strings.  A value that may be None is a sequence of length at most   *)
(* one: None is <<>>, the value x is <<x>>.                                *)
(***************************************************************************)
EXTENDS Integers, Sequences, FiniteSets, TLC

VARIABLES
    pc,             \* position of main(): "prompt", "http", "ssl", "whois", "finish", "stopped"
                    \* (in SpecUnits: the function about to be called, then "returned")
    user_input,     \* main: user_input (line 318); the argument of parse_domain
    parsed,         \* main: (success, result) of parse_domain (line 331)
    reparsed,       \* SpecUnits only: parse_domain applied to the result of a successful parse
    domain,         \* main: domain (line 337)
    get_outcome,    \* what requests.get did in the last http_status_check (line 233)
    status,         \* main: status (line 346)
    code,           \* main: code (line 346)
    ssl_status,     \* main: ssl_status (line 361)
    issuer,         \* main: issuer (line 361)
    expiry,         \* main: expiry (line 361)
    whois_result,   \* main: whois_result (line 391)
    risk_score,     \* main: risk_score (line 367)
    risk_factors,   \* main: risk_factors (line 368), a list
    final_verdict,  \* main: final_verdict (lines 416-421)
    started,        \* history: the checks and the verdict started in the current iteration
    outcome,        \* history: how the last iteration ended, "scanning" while one runs
    prev_outcome,   \* history: how the iteration before that one ended
    lookup          \* SpecUnits only: what whois.whois gave to domain_age_whois

vars == <<pc, user_input, parsed, reparsed, domain, get_outcome, status, code,
          ssl_status, issuer, expiry, whois_result, risk_score, risk_factors,
          final_verdict, started, outcome, prev_outcome, lookup>>

\* Python's None, and a value that is not None
None == <<>>
Some(x) == <<x>>

(***************************************************************************)
(* Bounds of the model.                                                    *)
(***************************************************************************)
\* longest body of a raw input handed to parse_domain in SpecUnits
MaxLen == 4
\* oldest creation date handed to domain_age_whois in SpecUnits, in 30-day months
MaxAgeMonths == 13
\* clock ticks per day: timedelta.days floors a difference finer than a day
TicksPerDay == 2

(***************************************************************************)
(* Characters and str methods                                              *)
(***************************************************************************)
LowerLetters == <<"a", "c", "e", "h", "i", "l", "p", "r", "t", "x">>
UpperLetters == <<"A", "C", "E", "H", "I", "L", "P", "R", "T", "X">>
Digits == {"8"}

Range(s) == {s[i] : i \in 1..Len(s)}

IsAlpha(c) == c \in Range(LowerLetters) \cup Range(UpperLetters)

\* str.lower() on one character
LowerChar(c) ==
    IF \E i \in 1..Len(UpperLetters) : UpperLetters[i] = c
    THEN LowerLetters[CHOOSE i \in 1..Len(UpperLetters) : UpperLetters[i] = c]
    ELSE c

\* str.lower()
Lower(s) == [i \in 1..Len(s) |-> LowerChar(s[i])]

\* str.strip(): drop the leading and the trailing whitespace
RECURSIVE LStrip(_)
LStrip(s) == IF s # <<>> /\ Head(s) = " " THEN LStrip(Tail(s)) ELSE s

RECURSIVE RStrip(_)
RStrip(s) ==
    IF s # <<>> /\ s[Len(s)] = " " THEN RStrip(SubSeq(s, 1, Len(s) - 1)) ELSE s

Strip(s) == RStrip(LStrip(s))

\* str.find(c) from position `from`, 1-based; 0 when c does not occur
Find(s, cs, from) ==
    IF \E i \in from..Len(s) : s[i] \in cs
    THEN CHOOSE i \in from..Len(s) : s[i] \in cs /\ \A j \in from..(i - 1) : s[j] \notin cs
    ELSE 0

\* "sub in s" for a two-character sub
HasPair(s, a, b) == \E i \in 1..(Len(s) - 1) : s[i] = a /\ s[i + 1] = b

(***************************************************************************)
(* urllib.parse.urlparse, as far as parse_domain reads it: the scheme and  *)
(* the netloc, or the ValueError it raises on an unbalanced bracket.       *)
(***************************************************************************)
SchemeChars == Range(LowerLetters) \cup Range(UpperLetters) \cup Digits \cup {"+", "-", "."}

urlparse(url) ==
    LET colon == Find(url, {":"}, 1)
        hasScheme == /\ colon > 1
                     /\ IsAlpha(url[1])
                     /\ \A i \in 1..(colon - 1) : url[i] \in SchemeChars
        scheme == IF hasScheme THEN Lower(SubSeq(url, 1, colon - 1)) ELSE <<>>
        rest == IF hasScheme THEN SubSeq(url, colon + 1, Len(url)) ELSE url
        hasNetloc == Len(rest) >= 2 /\ rest[1] = "/" /\ rest[2] = "/"
        delim == Find(rest, {"/", "?", "#"}, 3)
        netloc == IF ~hasNetloc THEN <<>>
                  ELSE IF delim = 0 THEN SubSeq(rest, 3, Len(rest))
                  ELSE SubSeq(rest, 3, delim - 1)
    IN  IF ("[" \in Range(netloc)) # ("]" \in Range(netloc))
        THEN [raises |-> TRUE, scheme |-> <<>>, netloc |-> <<>>]
        ELSE [raises |-> FALSE, scheme |-> scheme, netloc |-> netloc]

HttpPrefix == <<"h", "t", "t", "p", ":", "/", "/">>

(***************************************************************************)
(* parse_domain (lines 206-227)                                            *)
(***************************************************************************)
ParseFail(msg) == [raises |-> FALSE, ok |-> FALSE, val |-> msg]
ParseRaises == [raises |-> TRUE, ok |-> FALSE, val |-> ""]

\* lines 217-225 without the check for two consecutive dots (lines 223-224)
CheckDomain_NoDoubleDot(d) ==
    IF d = <<>> THEN ParseFail("invalid url or domain")
    ELSE IF "." \notin Range(d) THEN ParseFail("invalid domain format")
    ELSE IF d[1] = "." \/ d[Len(d)] = "." THEN ParseFail("invalid url pattern")
    ELSE [raises |-> FALSE, ok |-> TRUE, val |-> Lower(d)]

\* lines 217-225: the checks on the extracted authority
CheckDomain(d) ==
    IF d = <<>> THEN ParseFail("invalid url or domain")
    ELSE IF "." \notin Range(d) THEN ParseFail("invalid domain format")
    ELSE IF d[1] = "." \/ d[Len(d)] = "." THEN ParseFail("invalid url pattern")
    ELSE IF HasPair(d, ".", ".") THEN ParseFail("wrong domain format")
    ELSE [raises |-> FALSE, ok |-> TRUE, val |-> Lower(d)]

\* lines 208-225: the body of the try block
ParseBody(raw) ==
    IF Strip(raw) = <<>> THEN ParseFail("No input provided")
    ELSE LET s == Strip(raw)
             p1 == urlparse(s)
             p2 == urlparse(HttpPrefix \o s)
         IN  IF p1.raises THEN ParseRaises
             ELSE IF p1.scheme # <<>> THEN CheckDomain(p1.netloc)
             ELSE IF p2.raises THEN ParseRaises
             ELSE CheckDomain(p2.netloc)

\* lines 226-227: the except clause turns an exception into a failure value
ParseExcept(r) == IF r.raises THEN ParseFail("unexpected parsing error") ELSE r

parse_domain(raw) == ParseExcept(ParseBody(raw))

(***************************************************************************)
(* http_status_check (lines 229-242).  `get` is what requests.get did: a   *)
(* response with a status code, a requests.exceptions.RequestException     *)
(* (connection error, timeout, ...), an exception of another class, or a   *)
(* KeyboardInterrupt delivered while the call blocks.  The result is the   *)
(* returned pair, or the exception that leaves the function.               *)
(***************************************************************************)
Response(c) == [kind |-> "response", code |-> c]
Failure(k) == [kind |-> k, code |-> 0]

Returned(s, c) == [raises |-> "none", status |-> s, code |-> c]
Raised(e) == [raises |-> e, status |-> "", code |-> None]

\* line 241: the except clause of http_status_check
HttpCaught(kind) == kind = "RequestException"

http_status_check(get) ==
    IF get.kind = "response"
    THEN IF 200 <= get.code /\ get.code < 300 THEN Returned("reachable", Some(get.code))
         ELSE IF 300 <= get.code /\ get.code < 400 THEN Returned("redirect", Some(get.code))
         ELSE Returned("unreachable", Some(get.code))
    ELSE IF HttpCaught(get.kind) THEN Returned("unreachable", None)
    ELSE Raised(get.kind)

(***************************************************************************)
(* ssl_check (lines 244-259).  `tls` is what the handshake gave: a failure *)
(* (connect, handshake, a missing certificate field), a KeyboardInterrupt, *)
(* or a certificate whose issuer has the common name cn (None when the     *)
(* issuer has none) and whose notAfter parses or does not.                 *)
(***************************************************************************)
Cert(cn, ok) == [kind |-> "cert", cn |-> cn, notAfterOk |-> ok]
TlsFailure(k) == [kind |-> k, cn |-> None, notAfterOk |-> FALSE]

SslReturned(s, i, e) == [raises |-> "none", status |-> s, issuer |-> i, expiry |-> e]

ssl_check(tls) ==
    IF tls.kind = "KeyboardInterrupt"
    THEN [raises |-> "KeyboardInterrupt", status |-> "", issuer |-> None, expiry |-> None]
    ELSE IF tls.kind = "cert" /\ tls.notAfterOk
    THEN SslReturned("valid",
                     IF tls.cn = None THEN Some("Unknown") ELSE tls.cn,
                     Some("notAfter"))
    ELSE SslReturned("invalid", None, None)

(***************************************************************************)
(* domain_age_whois (lines 261-300).  `w` is what whois.whois gave: a      *)
(* failure, a KeyboardInterrupt, or a record whose creation_date and       *)
(* expiration_date are each a datetime (a tick count t, with or without a  *)
(* time zone), a list of such values, None or a string.  `now` is          *)
(* datetime.utcnow() in ticks.                                             *)
(***************************************************************************)
Datetime(t, tz) == [type |-> "datetime", t |-> t, tz |-> tz, items |-> <<>>]
ListOf(items) == [type |-> "list", t |-> 0, tz |-> FALSE, items |-> items]
Other(type) == [type |-> type, t |-> 0, tz |-> FALSE, items |-> <<>>]

WhoisRecord(c, e) == [kind |-> "record", creation |-> c, expiry |-> e]
WhoisFailure(k) == [kind |-> k, creation |-> Other("none"), expiry |-> Other("none")]

\* lines 267-270: the first element of a list; an empty list raises IndexError
FirstOf(v) ==
    IF v.type # "list" THEN [raises |-> FALSE, v |-> v]
    ELSE IF v.items = <<>> THEN [raises |-> TRUE, v |-> v]
    ELSE [raises |-> FALSE, v |-> v.items[1]]

\* lines 275-278: replace(tzinfo=None) keeps the wall-clock reading
Naive(v) == [v EXCEPT !.tz = FALSE]

\* timedelta.days: the difference in whole days, rounded down
Days(ticks) == ticks \div TicksPerDay

\* lines 282-283
AgeMonths(now, creation) == Days(now - creation.t) \div 30
AgeYears(age_months) == age_months \div 12

\* lines 285-290
RiskLevel(age_months) ==
    IF age_months < 12 THEN "High"
    ELSE IF 12 <= age_months /\ age_months < 36 THEN "medium"
    ELSE "low"

domain_age_whois(w, now) ==
    IF w.kind = "KeyboardInterrupt" THEN [raises |-> "KeyboardInterrupt", result |-> None]
    ELSE IF w.kind # "record" THEN [raises |-> "none", result |-> None]
    ELSE LET c == FirstOf(w.creation)
             e == FirstOf(w.expiry)
         IN  IF c.raises \/ e.raises THEN [raises |-> "none", result |-> None]
             ELSE IF c.v.type # "datetime" \/ e.v.type # "datetime"
             THEN [raises |-> "none", result |-> None]
             ELSE LET creation == Naive(c.v)
                      age_months == AgeMonths(now, creation)
                  IN  [raises |-> "none",
                       result |-> Some([creation_date |-> creation,
                                        expiry_date |-> Naive(e.v),
                                        age_months |-> age_months,
                                        age_years |-> AgeYears(age_months),
                                        risk_level |-> RiskLevel(age_months)])]

(***************************************************************************)
(* The risk scorer, inline in main() (lines 363-421).  Each step takes the *)
(* running (risk_score, risk_factors) and returns it updated.              *)
(***************************************************************************)
free_cert_list == <<"R12", "R3 DV", "R3 EV", "R3 CA", "R3 cross-signed",
                    "let's encrypt", "R3", "R13", "zerossl", "buypass",
                    "cloudflare", "google trust">>

Acc(score, factors) == [score |-> score, factors |-> factors]
Add(acc, points, tag) == Acc(acc.score + points, Append(acc.factors, tag))

\* lines 367-368 left out: the score and the factors of the last scan are kept
ResetScore_Stale(acc) == acc

\* lines 367-368
ResetScore(acc) == Acc(0, <<>>)

\* Python's truth value of issuer: neither None nor the empty string
Truthy(i) == i # None /\ i[1] # ""

\* lines 370-387 with the else of line 384 bound to the inner if: a free
\* issuer is tagged and then scored as an invalid certificate too
CertScore_DanglingElse(acc, s, i) ==
    IF s = "valid" /\ Truthy(i)
    THEN IF i[1] \in Range(free_cert_list)
         THEN Add(Add(acc, 10, "free_ssl"), 30, "invalid_ssl")
         ELSE acc
    ELSE Add(acc, 30, "invalid_ssl")

\* lines 370-387
CertScore(acc, s, i) ==
    IF s = "valid" /\ Truthy(i)
    THEN IF i[1] \in Range(free_cert_list) THEN Add(acc, 10, "free_ssl") ELSE acc
    ELSE Add(acc, 30, "invalid_ssl")

\* lines 393-405
AgeScore(acc, w) ==
    IF w = None THEN Add(acc, 10, "privacy")
    ELSE IF w[1].age_months < 12 THEN Add(acc, 15, "new_domain")
    ELSE acc

\* lines 408-410
RedirectScore(acc, s) == IF s = "redirect" THEN Add(acc, 3, "redirect") ELSE acc

\* lines 416-421 with > for >= in the first comparison
Verdict_Strict(score) ==
    IF score > 20 THEN "High"
    ELSE IF score >= 17 THEN "Medium"
    ELSE "Safe"

\* lines 416-421
Verdict(score) ==
    IF score >= 20 THEN "High"
    ELSE IF score >= 17 THEN "Medium"
    ELSE "Safe"

(***************************************************************************)
(* What the environment can hand to one iteration of the loop.             *)
(***************************************************************************)
\* input() (line 318): a line, an EOFError, or a KeyboardInterrupt
Line(s) == [raises |-> "none", line |-> s]
LoopInputs ==
    { <<"e", "x", "i", "t">>, <<" ", "E", "x", "i", "t">>,
      <<"C", "l", "e", "a", "r", " ">>,
      <<" ">>, <<"a", ".", ".", "a">>, <<"a", ":", "/", "/", "[">>,
      <<"a", ".", "a">>, <<"h", "t", "t", "p", ":", "/", "/", "A", ".", "a", ":", "8", "/", "x">> }
ReadOutcomes ==
    {Line(s) : s \in LoopInputs}
        \cup {[raises |-> "Exception", line |-> <<>>],
              [raises |-> "KeyboardInterrupt", line |-> <<>>]}

\* requests.get (line 233)
StatusCodes == {200, 301, 404}
GetOutcomes ==
    {Response(c) : c \in StatusCodes}
        \cup {Failure("RequestException"), Failure("Exception"),
              Failure("KeyboardInterrupt")}

\* the TLS handshake and the certificate (lines 250-256)
CommonNames == {Some("cloudflare"), Some("Cloudflare"), Some("DigiCert"), Some(""), None}
TlsOutcomes ==
    {Cert(cn, TRUE) : cn \in CommonNames}
        \cup {Cert(Some("DigiCert"), FALSE), TlsFailure("error"),
              TlsFailure("KeyboardInterrupt")}

\* whois.whois (line 263); times are ticks relative to the lookup, which is at 0
Month == 30 * TicksPerDay
CreationTicks == {1, -5 * Month, 1 - 12 * Month, -12 * Month}
ExpiryTick == 12 * Month
CreationValues ==
    {Datetime(t, FALSE) : t \in CreationTicks}
        \cup {Datetime(-5 * Month, TRUE),
              ListOf(<<Datetime(-12 * Month, FALSE), Datetime(1, FALSE)>>),
              ListOf(<<>>), ListOf(<<Other("str")>>), Other("none"), Other("str")}
ExpiryValues ==
    {Datetime(ExpiryTick, FALSE), ListOf(<<Datetime(ExpiryTick, TRUE)>>), Other("none")}
WhoisOutcomes ==
    {WhoisRecord(c, e) : c \in CreationValues, e \in ExpiryValues}
        \cup {WhoisFailure("error"), WhoisFailure("KeyboardInterrupt")}

\* the display calls of lines 423-433
DisplayOutcomes == {"none", "Exception", "KeyboardInterrupt"}

(***************************************************************************)
(* main() (lines 306-439): the interactive loop.                           *)
(***************************************************************************)
Exit == <<"e", "x", "i", "t">>
Clear == <<"c", "l", "e", "a", "r">>

\* lines 435-439 with a break in the second handler too
LoopHandler_Break(exc) == "stopped"

\* lines 435-439: where the loop goes on an exception raised in the try block
LoopHandler(exc) == IF exc = "KeyboardInterrupt" THEN "stopped" ELSE "prompt"
HandlerOutcome(exc) == IF exc = "KeyboardInterrupt" THEN "interrupt" ELSE "exception"

\* lines 348-351 without the continue: the scan goes on to the SSL check
AfterHttp_NoAbort(s) == "ssl"

\* lines 348-351: an unreachable domain ends the iteration
AfterHttp(s) == IF s = "unreachable" THEN "prompt" ELSE "ssl"

IterationEnds(how) ==
    /\ outcome' = how
    /\ prev_outcome' = outcome

locals == <<status, code, ssl_status, issuer, expiry, whois_result,
            risk_score, risk_factors, final_verdict>>

Init ==
    /\ pc = "prompt"
    /\ user_input = <<>>
    /\ parsed = ParseFail("")
    /\ reparsed = ParseFail("")
    /\ domain = <<>>
    /\ get_outcome = Failure("")
    /\ status = ""
    /\ code = None
    /\ ssl_status = ""
    /\ issuer = None
    /\ expiry = None
    /\ whois_result = None
    /\ risk_score = 0
    /\ risk_factors = <<>>
    /\ final_verdict = ""
    /\ started = {}
    /\ outcome = "none"
    /\ prev_outcome = "none"
    /\ lookup = WhoisFailure("")

\* line 318: input() raises
ReadRaises ==
    /\ pc = "prompt"
    /\ \E r \in ReadOutcomes :
        /\ r.raises # "none"
        /\ pc' = LoopHandler(r.raises)
        /\ IterationEnds(HandlerOutcome(r.raises))
    /\ started' = {}
    /\ UNCHANGED <<lookup, user_input, parsed, reparsed, domain, get_outcome, locals>>

\* lines 318-322: the line is "exit"
ReadExit ==
    /\ pc = "prompt"
    /\ \E r \in ReadOutcomes :
        /\ r.raises = "none"
        /\ user_input' = Strip(r.line)
        /\ Lower(user_input') = Exit
    /\ pc' = "stopped"
    /\ IterationEnds("exit")
    /\ started' = {}
    /\ UNCHANGED <<lookup, parsed, reparsed, domain, get_outcome, locals>>

\* lines 324-327: the line is "clear"
ReadClear ==
    /\ pc = "prompt"
    /\ \E r \in ReadOutcomes :
        /\ r.raises = "none"
        /\ user_input' = Strip(r.line)
        /\ Lower(user_input') = Clear
    /\ pc' = "prompt"
    /\ IterationEnds("clear")
    /\ started' = {}
    /\ UNCHANGED <<lookup, parsed, reparsed, domain, get_outcome, locals>>

\* lines 329-342: any other line goes to parse_domain
ReadParse ==
    /\ pc = "prompt"
    /\ \E r \in ReadOutcomes :
        /\ r.raises = "none"
        /\ user_input' = Strip(r.line)
        /\ Lower(user_input') \notin {Exit, Clear}
    /\ LET r == parse_domain(user_input')
       IN  IF r.raises
           THEN /\ pc' = LoopHandler("Exception")
                /\ IterationEnds(HandlerOutcome("Exception"))
                /\ UNCHANGED <<parsed, domain>>
           ELSE IF r.ok
           THEN /\ parsed' = r
                /\ domain' = r.val
                /\ pc' = "http"
                /\ IterationEnds("scanning")
           ELSE /\ parsed' = r
                /\ domain' = domain
                /\ pc' = "prompt"
                /\ IterationEnds("parse_fail")
    /\ started' = {}
    /\ UNCHANGED <<lookup, reparsed, get_outcome, locals>>

\* lines 344-357
HttpCheck ==
    /\ pc = "http"
    /\ \E get \in GetOutcomes :
        LET r == http_status_check(get)
        IN  /\ get_outcome' = get
            /\ IF r.raises # "none"
               THEN /\ pc' = LoopHandler(r.raises)
                    /\ outcome' = HandlerOutcome(r.raises)
                    /\ UNCHANGED <<status, code>>
               ELSE /\ status' = r.status
                    /\ code' = r.code
                    /\ pc' = AfterHttp(r.status)
                    /\ outcome' = IF r.status = "unreachable" THEN "unreachable" ELSE outcome
    /\ started' = started \cup {"http"}
    /\ UNCHANGED <<lookup, user_input, parsed, reparsed, domain, ssl_status, issuer, expiry,
                   whois_result, risk_score, risk_factors, final_verdict, prev_outcome>>

\* lines 359-387
SslCheck ==
    /\ pc = "ssl"
    /\ \E tls \in TlsOutcomes :
        LET r == ssl_check(tls)
            acc == CertScore(ResetScore(Acc(risk_score, risk_factors)), r.status, r.issuer)
        IN  IF r.raises # "none"
            THEN /\ pc' = LoopHandler(r.raises)
                 /\ outcome' = HandlerOutcome(r.raises)
                 /\ UNCHANGED <<ssl_status, issuer, expiry, risk_score, risk_factors>>
            ELSE /\ ssl_status' = r.status
                 /\ issuer' = r.issuer
                 /\ expiry' = r.expiry
                 /\ risk_score' = acc.score
                 /\ risk_factors' = acc.factors
                 /\ pc' = "whois"
                 /\ outcome' = outcome
    /\ started' = started \cup {"ssl"}
    /\ UNCHANGED <<lookup, user_input, parsed, reparsed, domain, get_outcome, status, code,
                   whois_result, final_verdict, prev_outcome>>

\* lines 389-405
WhoisCheck ==
    /\ pc = "whois"
    /\ \E w \in WhoisOutcomes :
        LET r == domain_age_whois(w, 0)
            acc == AgeScore(Acc(risk_score, risk_factors), r.result)
        IN  IF r.raises # "none"
            THEN /\ pc' = LoopHandler(r.raises)
                 /\ outcome' = HandlerOutcome(r.raises)
                 /\ UNCHANGED <<whois_result, risk_score, risk_factors>>
            ELSE /\ whois_result' = r.result
                 /\ risk_score' = acc.score
                 /\ risk_factors' = acc.factors
                 /\ pc' = "finish"
                 /\ outcome' = outcome
    /\ started' = started \cup {"whois"}
    /\ UNCHANGED <<lookup, user_input, parsed, reparsed, domain, get_outcome, status, code,
                   ssl_status, issuer, expiry, final_verdict, prev_outcome>>

\* lines 407-433
Finish ==
    /\ pc = "finish"
    /\ LET acc == RedirectScore(Acc(risk_score, risk_factors), status)
       IN  /\ risk_score' = acc.score
           /\ risk_factors' = acc.factors
           /\ final_verdict' = Verdict(acc.score)
    /\ \E d \in DisplayOutcomes :
        IF d # "none"
        THEN /\ pc' = LoopHandler(d)
             /\ outcome' = HandlerOutcome(d)
        ELSE /\ pc' = "prompt"
             /\ outcome' = "completed"
    /\ started' = started \cup {"verdict"}
    /\ UNCHANGED <<lookup, user_input, parsed, reparsed, domain, get_outcome, status, code,
                   ssl_status, issuer, expiry, whois_result, prev_outcome>>

Next ==
    \/ ReadRaises
    \/ ReadExit
    \/ ReadClear
    \/ ReadParse
    \/ HttpCheck
    \/ SslCheck
    \/ WhoisCheck
    \/ Finish

Spec == Init /\ [][Next]_vars

(***************************************************************************)
(* SpecUnits: parse_domain, http_status_check and domain_age_whois, each   *)
(* called once on an argument drawn from a bounded set.                    *)
(***************************************************************************)
Alphabet == {"a", "A", "8", ".", ":", "/", " ", "["}

RECURSIVE Strings(_)
Strings(n) ==
    IF n = 0 THEN {<<>>}
    ELSE LET shorter == Strings(n - 1)
         IN  shorter \cup {Append(s, c) : s \in shorter, c \in Alphabet}

Prefixes == {<<>>, <<"a", ":", "/", "/">>}
ParseInputs == {p \o s : p \in Prefixes, s \in Strings(MaxLen)}

UnitGetOutcomes ==
    {Response(c) : c \in 100..599}
        \cup {Failure("RequestException"), Failure("Exception")}

UnitLookups ==
    {WhoisRecord(Datetime(t, tz), Datetime(ExpiryTick, FALSE)) :
        t \in (-MaxAgeMonths * Month)..Month, tz \in BOOLEAN}
        \cup {WhoisRecord(c, e) : c \in CreationValues, e \in ExpiryValues}
        \cup {WhoisFailure("error")}

UnitInit ==
    /\ pc \in {"parse_domain", "http_status_check", "domain_age_whois"}
    /\ user_input \in (IF pc = "parse_domain" THEN ParseInputs ELSE {<<>>})
    /\ get_outcome \in (IF pc = "http_status_check" THEN UnitGetOutcomes ELSE {Failure("")})
    /\ lookup \in (IF pc = "domain_age_whois" THEN UnitLookups ELSE {WhoisFailure("")})
    /\ parsed = ParseFail("")
    /\ reparsed = ParseFail("")
    /\ domain = <<>>
    /\ status = ""
    /\ code = None
    /\ ssl_status = ""
    /\ issuer = None
    /\ expiry = None
    /\ whois_result = None
    /\ risk_score = 0
    /\ risk_factors = <<>>
    /\ final_verdict = ""
    /\ started = {}
    /\ outcome = "none"
    /\ prev_outcome = "none"

\* parse_domain(user_input)
ParseCall ==
    /\ pc = "parse_domain"
    /\ parsed' = parse_domain(user_input)
    /\ pc' = IF parsed'.raises THEN "parse_raised"
             ELSE IF parsed'.ok THEN "parse_again"
             ELSE "parse_returned"
    /\ UNCHANGED <<user_input, reparsed, domain, get_outcome, locals, started,
                   outcome, prev_outcome, lookup>>

\* parse_domain applied to the output of a successful parse
ParseAgain ==
    /\ pc = "parse_again"
    /\ reparsed' = parse_domain(parsed.val)
    /\ pc' = "reparse_returned"
    /\ UNCHANGED <<user_input, parsed, domain, get_outcome, locals, started,
                   outcome, prev_outcome, lookup>>

\* http_status_check with requests.get doing get_outcome
HttpCall ==
    /\ pc = "http_status_check"
    /\ LET r == http_status_check(get_outcome)
       IN  IF r.raises # "none"
           THEN pc' = "http_raised" /\ UNCHANGED <<status, code>>
           ELSE pc' = "http_returned" /\ status' = r.status /\ code' = r.code
    /\ UNCHANGED <<user_input, parsed, reparsed, domain, get_outcome, ssl_status,
                   issuer, expiry, whois_result, risk_score, risk_factors,
                   final_verdict, started, outcome, prev_outcome, lookup>>

\* domain_age_whois with whois.whois giving lookup, at time 0
WhoisCall ==
    /\ pc = "domain_age_whois"
    /\ LET r == domain_age_whois(lookup, 0)
       IN  /\ whois_result' = r.result
           /\ pc' = IF r.raises # "none" THEN "whois_raised" ELSE "whois_returned"
    /\ UNCHANGED <<user_input, parsed, reparsed, domain, get_outcome, status, code,
                   ssl_status, issuer, expiry, risk_score, risk_factors,
                   final_verdict, started, outcome, prev_outcome, lookup>>

UnitNext ==
    \/ ParseCall
    \/ ParseAgain
    \/ HttpCall
    \/ WhoisCall

SpecUnits == UnitInit /\ [][UnitNext]_vars

(***************************************************************************)
(* The claims                                                              *)
(***************************************************************************)
\* the current iteration has computed its verdict: the locals are this scan's
Assessed == "verdict" \in started

FreeIssuers ==
    {"R12", "R3 DV", "R3 EV", "R3 CA", "R3 cross-signed", "let's encrypt", "R3",
     "R13", "zerossl", "buypass", "cloudflare", "google trust"}

\* the additive rule of the specification, from the results of the three checks
RuleCert(s, i) ==
    IF s = "invalid" THEN [points |-> 30, tags |-> {"invalid_ssl"}]
    ELSE IF i # None /\ i[1] \in FreeIssuers THEN [points |-> 10, tags |-> {"free_ssl"}]
    ELSE [points |-> 0, tags |-> {}]
RuleAge(w) ==
    IF w = None THEN [points |-> 10, tags |-> {"privacy"}]
    ELSE IF w[1].age_months < 12 THEN [points |-> 15, tags |-> {"new_domain"}]
    ELSE [points |-> 0, tags |-> {}]
RuleRedirect(s) ==
    IF s = "redirect" THEN [points |-> 3, tags |-> {"redirect"}]
    ELSE [points |-> 0, tags |-> {}]

\* C1: every scan that reaches scoring ends with the score and the factors of
\* the additive rule: +10 free_ssl iff the certificate is valid with an issuer
\* in the free list, +30 invalid_ssl iff it is invalid, +10 privacy iff the age
\* is absent, +15 new_domain iff ageMonths < 12, +3 redirect iff redirected.
C1_AdditiveRule ==
    Assessed =>
        /\ status \in {"reachable", "redirect"}
        /\ risk_score = RuleCert(ssl_status, issuer).points + RuleAge(whois_result).points
                            + RuleRedirect(status).points
        /\ Range(risk_factors) = RuleCert(ssl_status, issuer).tags
                                    \cup RuleAge(whois_result).tags
                                    \cup RuleRedirect(status).tags
        /\ Len(risk_factors) = Cardinality(Range(risk_factors))

\* C2: the verdict of a scan is High iff score >= 20, Medium iff
\* 17 <= score < 20 and Safe iff score < 17; 16 is Safe, 17 and 19 are Medium,
\* 20 is High.
C2_VerdictThresholds ==
    /\ Assessed =>
        /\ final_verdict \in {"High", "Medium", "Safe"}
        /\ final_verdict = "High" <=> risk_score >= 20
        /\ final_verdict = "Medium" <=> (17 <= risk_score /\ risk_score < 20)
        /\ final_verdict = "Safe" <=> risk_score < 17
    /\ Verdict(16) = "Safe"
    /\ Verdict(17) = "Medium"
    /\ Verdict(19) = "Medium"
    /\ Verdict(20) = "High"

C2_Witness == Assessed /\ final_verdict = "Medium" /\ risk_score = 18

\* C3: when the reachability check returns Unreachable the iteration ends
\* there: neither the certificate check nor the WHOIS check is started, no
\* verdict is computed, and the loop is back at the prompt.
C3_UnreachableAborts ==
    /\ outcome = "unreachable" =>
        /\ pc = "prompt"
        /\ status = "unreachable"
        /\ started = {"http"}
    /\ pc \in {"ssl", "whois", "finish"} => status \in {"reachable", "redirect"}
    /\ started \cap {"ssl", "whois", "verdict"} # {} => status \in {"reachable", "redirect"}

C3_Witness ==
    /\ outcome = "unreachable"
    /\ code = None
    /\ pc = "prompt"
    /\ prev_outcome = "completed"

\* C4: a scan adds invalid_ssl and its +30 exactly when ssl_check returned
\* invalid; when it returned valid, with any issuer, it adds neither.
C4_InvalidSslOnlyWhenInvalid ==
    pc \in {"whois", "finish"} \/ Assessed =>
        /\ ("invalid_ssl" \in Range(risk_factors)) <=> (ssl_status = "invalid")
        /\ pc = "whois" /\ ssl_status = "valid" => risk_score \in {0, 10}

\* what a scan computes from its own results when it starts from nothing
Assessment(s, ss, i, w) ==
    LET acc == RedirectScore(AgeScore(CertScore(Acc(0, <<>>), ss, i), w), s)
    IN  <<acc.score, acc.factors, Verdict(acc.score)>>

\* C5: whatever iterations came before, the score, the factors and the
\* verdict of a scan are one fixed function of that scan's reachability,
\* certificate and age results.
C5_NoCarryOver ==
    Assessed =>
        <<risk_score, risk_factors, final_verdict>>
            = Assessment(status, ssl_status, issuer, whois_result)

C5_Witness ==
    /\ outcome = "completed"
    /\ prev_outcome = "completed"
    /\ risk_factors = <<"new_domain">>

\* C6: http_status_check always returns: Reachable for 200-299, Redirect for
\* 300-399, Unreachable with the code for any other status, and Unreachable
\* with no code for every failure of the request.
C6_HttpTotal ==
    pc \in {"http_returned", "http_raised"} =>
        /\ pc = "http_returned"
        /\ IF get_outcome.kind = "response"
           THEN /\ code = Some(get_outcome.code)
                /\ status = "reachable" <=> get_outcome.code \in 200..299
                /\ status = "redirect" <=> get_outcome.code \in 300..399
                /\ status = "unreachable" <=> get_outcome.code \notin 200..399
           ELSE status = "unreachable" /\ code = None

\* C7: a present result of domain_age_whois has ageMonths >= 0 and
\* ageYears >= 0, with ageMonths = floor(days(now - creationDate) / 30) and
\* ageYears = floor(ageMonths / 12), also for a creation date later than now.
C7_AgeNonNegative ==
    pc = "whois_returned" /\ whois_result # None =>
        LET r == whois_result[1]
        IN  /\ r.age_months >= 0
            /\ r.age_years >= 0
            /\ r.age_months = ((0 - r.creation_date.t) \div TicksPerDay) \div 30
            /\ r.age_years = r.age_months \div 12

\* C8: parse_domain is idempotent on its successful outputs.
C8_ParseIdempotent ==
    pc = "reparse_returned" => reparsed.ok /\ reparsed.val = parsed.val

\* the authority part of a raw input: that of its URL when it has a scheme,
\* that of "http://" + input otherwise
Authority(raw) ==
    LET s == Strip(raw)
        p == urlparse(s)
    IN  IF p.scheme # <<>> THEN p.netloc ELSE urlparse(HttpPrefix \o s).netloc

Malformed(a) ==
    \/ a = <<>>
    \/ \A i \in 1..Len(a) : a[i] # "."
    \/ Head(a) = "."
    \/ a[Len(a)] = "."
    \/ \E i \in 1..(Len(a) - 1) : a[i] = "." /\ a[i + 1] = "."

\* C9: parse_domain never raises, fails on every input whose authority is
\* empty, has no dot, starts or ends with a dot or has two dots in a row, and
\* so returns only lowercase strings with a dot, without a dot at either end
\* and without an empty segment.
C9_ParseWellFormed ==
    pc \in {"parse_raised", "parse_returned", "parse_again"} =>
        /\ pc # "parse_raised"
        /\ Malformed(Authority(user_input)) => ~parsed.ok
        /\ parsed.ok =>
            LET d == parsed.val
            IN  /\ \E i \in 1..Len(d) : d[i] = "."
                /\ \A i \in 1..Len(d) :
                    d[i] = "." => /\ 1 < i
                                  /\ i < Len(d)
                                  /\ d[i + 1] # "."
                /\ \A i \in 1..Len(d) : d[i] \notin Range(UpperLetters)

C9_Witness ==
    /\ pc = "parse_again"
    /\ user_input = <<"a", ":", "/", "/", "A", ".", "a", "/">>
    /\ parsed.val = <<"a", ".", "a">>

C11_ReachableScores ==
    Assessed =>
        LET tags == Range(risk_factors)
        IN  /\ \E c \in {0, 10, 30}, a \in {0, 10, 15}, r \in {0, 3} :
                risk_score = c + a + r
            /\ ~("free_ssl" \in tags /\ "invalid_ssl" \in tags)
            /\ ~("privacy" \in tags /\ "new_domain" \in tags)
            /\ risk_score <= 48
            /\ final_verdict = "Medium" <=> risk_factors = <<"new_domain", "redirect">>
            /\ final_verdict = "Medium" => risk_score = 18

C11_Witness ==
    /\ outcome = "completed"
    /\ final_verdict = "Medium"
    /\ risk_factors = <<"new_domain", "redirect">>
    /\ ssl_status = "valid"

=============================================================================
